---- MODULE Spec2Model ----
(***************************************************************************)
(* A model of codex.go: the classification of the statements of a graph    *)
(* pattern into per-variable Codexes (getInitalCodexMap), the probing of   *)
(* the store, the stable ordering of the variables and the construction of *)
(* the Assignment of every variable (CodexMap.getAssignmentTree), and the  *)
(* teardown (CodexMap.close).                                              *)
(*                                                                         *)
(* Pointers are modelled by handles: a *Reference is its index in the      *)
(* arena refs (0 is nil); a *Cursor is the pair of its Reference and its   *)
(* generation gen, the n-th Cursor object allocated for that Reference     *)
(* (gen 0 is nil).  Positions in the variable order, statement indices and *)
(* offsets are 0-based as in the Go source.                                *)
(***************************************************************************)
EXTENDS Integers, Sequences, FiniteSets, TLC

\* ---------------------------------------------------------------- bounds
\* Counts are uint64 in the source; the sums and squares of this model stay
\* far below 2^64, so no arithmetic is reduced modulo 2^64.
\* the largest number of statements of a dataset (over all its sub-graphs)
MaxQuads == 2
\* the largest number of getAssignmentTree calls made on one CodexMap
MaxCalls == 2

\* ------------------------------------------------------------ the inputs
Graphs == {"g1", "g2"}

B(v) == [blank |-> TRUE, v |-> v]
K(v) == [blank |-> FALSE, v |-> v]
NilNode == [blank |-> FALSE, v |-> "nil"]

Quad(s, p, o) == [Subject |-> s, Predicate |-> p, Object |-> o]

\* The statements a dataset is drawn from: one for every branch of the
\* classifier (none, one, two equal, two distinct, three variables), over
\* the variables x, y, z and the constant values k and m.
Pool ==
  { Quad(K("k"), K("k"), K("k")),
    Quad(B("x"), K("k"), K("k")),
    Quad(K("k"), B("y"), K("k")),
    Quad(K("k"), K("k"), B("z")),
    Quad(B("y"), K("m"), K("k")),
    Quad(B("x"), B("x"), K("k")),
    Quad(K("k"), B("y"), B("y")),
    Quad(B("z"), K("k"), B("z")),
    Quad(B("x"), B("y"), K("k")),
    Quad(B("y"), K("k"), B("z")),
    Quad(K("k"), B("z"), B("x")),
    Quad(B("z"), K("m"), B("x")),
    Quad(B("x"), B("y"), B("z")) }

Perms(S) == { f \in [1..Cardinality(S) -> S] : \A a, b \in 1..Cardinality(S) : a # b => f[a] # f[b] }

\* -------------------------------------------------------------- the heap
permutationA == 0
permutationB == 1
permutationC == 2
permutationAB == 3
permutationBC == 4
permutationCA == 5
constantPermutation == 9

\* the nil *Cursor
NoCursor == [gen |-> 0, Count |-> 0, ID |-> "", Index |-> 0, released |-> FALSE]
\* &Cursor{}: the gen-th Cursor object of a Reference
NewCursor(gen) == [gen |-> gen, Count |-> 0, ID |-> "", Index |-> 0, released |-> FALSE]

makeReference(graph, index, permutation, m, n) ==
  [Graph |-> graph, Index |-> index, Permutation |-> permutation, M |-> m, N |-> n,
   Cursor |-> NewCursor(1), Dual |-> 0]

\* &Reference{Graph: graph, Index: index} with Permutation, M and N set afterwards
singleReference(graph, index, permutation, m, n) ==
  [Graph |-> graph, Index |-> index, Permutation |-> permutation, M |-> m, N |-> n,
   Cursor |-> NoCursor, Dual |-> 0]

EmptyMap == [v \in {} |-> <<>>]

\* &Codex{}
EmptyCodex ==
  [Constraint |-> <<>>, Single |-> <<>>, Double |-> EmptyMap, Norm |-> 0, Length |-> 0, Count |-> 0]

\* &CodexMap{}
EmptyCodexMap == [Index |-> EmptyMap, Slice |-> <<>>]

\* c.GetCodex(id): the CodexMap after the call (the Codex is Index[id])
GetCodex(c, id) ==
  IF id \in DOMAIN c.Index THEN c
  ELSE [Index |-> c.Index @@ (id :> EmptyCodex), Slice |-> Append(c.Slice, id)]

\* InsertDouble that replaces the group of b instead of appending to it
InsertDoubleOverwrite(c, a, b, ref) ==
  LET c1 == GetCodex(c, a)
      codex == c1.Index[a]
      double == IF b \in DOMAIN codex.Double
                  THEN [codex.Double EXCEPT ![b] = <<ref>>]
                  ELSE codex.Double @@ (b :> <<ref>>)
  IN [c1 EXCEPT !.Index[a].Double = double]

\* c.InsertDouble(a, b, ref)
InsertDouble(c, a, b, ref) ==
  LET c1 == GetCodex(c, a)
      codex == c1.Index[a]
      double == IF b \in DOMAIN codex.Double
                  THEN [codex.Double EXCEPT ![b] = Append(@, ref)]
                  ELSE codex.Double @@ (b :> <<ref>>)
  IN [c1 EXCEPT !.Index[a].Double = double]

\* the link set on the first Reference only
SetDualOneSided(rs, ra, rb) == [rs EXCEPT ![ra].Dual = rb]

\* refA.Dual, refB.Dual = refB, refA
SetDual(rs, ra, rb) == [rs EXCEPT ![ra].Dual = rb, ![rb].Dual = ra]

\* ------------------------------------------------------- classification
\* the state of getInitalCodexMap's loops
ClassifyInit == [err |-> FALSE, constants |-> <<>>, codexMap |-> EmptyCodexMap, refs |-> <<>>]

AppendConstraint(st, id, ref) ==
  LET c1 == GetCodex(st.codexMap, id)
  IN [st EXCEPT !.refs = Append(@, ref),
                !.codexMap = [c1 EXCEPT !.Index[id].Constraint = Append(@, Len(st.refs) + 1)]]

AppendSingle(st, id, ref) ==
  LET c1 == GetCodex(st.codexMap, id)
  IN [st EXCEPT !.refs = Append(@, ref),
                !.codexMap = [c1 EXCEPT !.Index[id].Single = Append(@, Len(st.refs) + 1)]]

AppendDouble(st, a, b, refA, refB) ==
  LET ra == Len(st.refs) + 1
      rb == Len(st.refs) + 2
      c1 == InsertDouble(st.codexMap, a, b, ra)
      c2 == InsertDouble(c1, b, a, rb)
  IN [st EXCEPT !.refs = SetDual(st.refs \o <<refA, refB>>, ra, rb), !.codexMap = c2]

\* the body of the inner loop of getInitalCodexMap for one quad
ClassifyQuad(st, graph, index, quad) ==
  LET A == quad.Subject.blank
      BB == quad.Predicate.blank
      C == quad.Object.blank
      a == IF A THEN quad.Subject.v ELSE ""
      b == IF BB THEN quad.Predicate.v ELSE ""
      c == IF C THEN quad.Object.v ELSE ""
  IN
  IF ~A /\ ~BB /\ ~C THEN
    [st EXCEPT !.refs = Append(@, makeReference(graph, index, constantPermutation, NilNode, NilNode)),
               !.constants = Append(@, Len(st.refs) + 1)]
  ELSE IF (A /\ ~BB /\ ~C) \/ (~A /\ BB /\ ~C) \/ (~A /\ ~BB /\ C) THEN
    LET ref == IF A THEN singleReference(graph, index, 0, quad.Predicate, quad.Object)
               ELSE IF BB THEN singleReference(graph, index, 1, quad.Object, quad.Subject)
               ELSE singleReference(graph, index, 2, quad.Subject, quad.Predicate)
        pivot == a \o b \o c
    IN AppendSingle(st, pivot, ref)
  ELSE IF A /\ BB /\ ~C THEN
    IF a = b THEN
      AppendConstraint(st, a, makeReference(graph, index, permutationAB, NilNode, quad.Object))
    ELSE
      AppendDouble(st, a, b,
                   makeReference(graph, index, permutationA, quad.Predicate, quad.Object),
                   makeReference(graph, index, permutationB, quad.Object, quad.Subject))
  ELSE IF A /\ ~BB /\ C THEN
    IF c = a THEN
      AppendConstraint(st, c, makeReference(graph, index, permutationCA, NilNode, quad.Predicate))
    ELSE
      AppendDouble(st, a, c,
                   makeReference(graph, index, permutationA, quad.Predicate, quad.Object),
                   makeReference(graph, index, permutationC, quad.Subject, quad.Predicate))
  ELSE IF ~A /\ BB /\ C THEN
    IF b = c THEN
      AppendConstraint(st, b, makeReference(graph, index, permutationBC, NilNode, quad.Subject))
    ELSE
      AppendDouble(st, b, c,
                   makeReference(graph, index, permutationB, quad.Object, quad.Subject),
                   makeReference(graph, index, permutationC, quad.Subject, quad.Predicate))
  ELSE
    [st EXCEPT !.err = TRUE]

\* for index, quad := range quads (index is the 0-based index of quads[n])
RECURSIVE ClassifyQuads(_, _, _, _)
ClassifyQuads(st, graph, quads, n) ==
  IF st.err \/ n > Len(quads) THEN st
  ELSE ClassifyQuads(ClassifyQuad(st, graph, n - 1, quads[n]), graph, quads, n + 1)

\* for graph, quads := range dataset.Graphs, the map iterated in the order gord
RECURSIVE ClassifyGraphs(_, _, _, _)
ClassifyGraphs(st, ds, gord, n) ==
  IF st.err \/ n > Len(gord) THEN st
  ELSE ClassifyGraphs(ClassifyQuads(st, gord[n], ds[gord[n]], 1), ds, gord, n + 1)

\* ------------------------------------------------------------ the store
\* the part of a node that enters a key: a variable is not a known value
KeyPart(node) == IF node.blank THEN "_" ELSE node.v

\* ref.assembleCountKey: the key is made of the permutation and the known values
assembleCountKey(ref) == <<ref.Permutation, KeyPart(ref.M), KeyPart(ref.N)>>

\* The counters of the store, the same for every transaction of a behaviour.
\* One key is present with the counter 0; every key not listed is absent.
store ==
  (<<0, "k", "k">> :> 2) @@ (<<1, "k", "k">> :> 1) @@ (<<2, "k", "k">> :> 1) @@
  (<<0, "_", "k">> :> 1) @@ (<<1, "k", "_">> :> 1) @@
  (<<0, "k", "_">> :> 2) @@ (<<2, "_", "k">> :> 1) @@
  (<<1, "_", "k">> :> 1) @@ (<<2, "k", "_">> :> 3) @@
  (<<0, "m", "_">> :> 0) @@ (<<2, "_", "m">> :> 1)

\* getCount(count, key, txn): the counter read and the error; ioErr says that
\* txn.Get fails with an error other than ErrKeyNotFound
getCount(key, ioErr) ==
  IF ~ioErr /\ key \notin DOMAIN store THEN [count |-> 0, err |-> FALSE]
  ELSE IF ioErr THEN [count |-> 0, err |-> TRUE]
  ELSE [count |-> store[key], err |-> FALSE]

\* ------------------------------------------------------ the probe phase
\* the state of the first loop of getAssignmentTree: err is "" (nil), "io"
\* or "zero"; gets counts the calls of getCount
ProbeInit(c, rs) == [err |-> "", c |-> c, refs |-> rs, gets |-> 0]

\* the statistics a probed count adds to a Codex
Accumulate(codex, count) ==
  [codex EXCEPT !.Count = @ + count, !.Norm = @ + count * count, !.Length = @ + 1]

\* the body of the loops over codex.Single and over codex.Double[dep]
ProbeRef(ps, id, r, errAt) ==
  LET got == getCount(assembleCountKey(ps.refs[r]), ps.gets + 1 = errAt)
      cursor == [NewCursor(ps.refs[r].Cursor.gen + 1) EXCEPT !.Count = got.count]
      rs == [ps.refs EXCEPT ![r].Cursor = cursor]
  IN IF got.err THEN [ps EXCEPT !.err = "io", !.refs = rs, !.gets = @ + 1]
     ELSE IF got.count = 0 THEN [ps EXCEPT !.err = "zero", !.refs = rs, !.gets = @ + 1]
     ELSE [ps EXCEPT !.refs = rs, !.gets = @ + 1,
                     !.c.Index[id] = Accumulate(@, got.count)]

RECURSIVE ProbeRefs(_, _, _, _, _)
ProbeRefs(ps, id, rseq, n, errAt) ==
  IF ps.err # "" \/ n > Len(rseq) THEN ps
  ELSE ProbeRefs(ProbeRef(ps, id, rseq[n], errAt), id, rseq, n + 1, errAt)

\* for _, refs := range codex.Double, the map iterated in the order deps
RECURSIVE ProbeDoubles(_, _, _, _, _)
ProbeDoubles(ps, id, deps, n, errAt) ==
  IF ps.err # "" \/ n > Len(deps) THEN ps
  ELSE ProbeDoubles(ProbeRefs(ps, id, ps.c.Index[id].Double[deps[n]], 1, errAt),
                    id, deps, n + 1, errAt)

\* codex.Count = 0 before the Codex is probed
ResetCount(codex) == [codex EXCEPT !.Count = 0]

\* the body of the loop over c.Index
ProbeCodex(ps, id, deps, errAt) ==
  LET p0 == [ps EXCEPT !.c.Index[id] = ResetCount(@)]
      p1 == ProbeRefs(p0, id, p0.c.Index[id].Single, 1, errAt)
  IN ProbeDoubles(p1, id, deps, 1, errAt)

\* for _, codex := range c.Index, the map iterated in the order iord; dord[id]
\* is the order in which the map Index[id].Double is iterated
RECURSIVE ProbeAll(_, _, _, _, _)
ProbeAll(ps, iord, dord, n, errAt) ==
  IF ps.err # "" \/ n > Len(iord) THEN ps
  ELSE ProbeAll(ProbeCodex(ps, iord[n], dord[iord[n]], errAt), iord, dord, n + 1, errAt)

\* --------------------------------------------------- the ordering phase
\* a and b are 0-based indices of c.Slice
\* Less with >= in the place of >
LessOrEqual(c, a, b) == c.Index[c.Slice[a + 1]].Count >= c.Index[c.Slice[b + 1]].Count

\* c.Less(a, b)
Less(c, a, b) == c.Index[c.Slice[a + 1]].Count > c.Index[c.Slice[b + 1]].Count

Swap(c, a, b) == [c EXCEPT !.Slice[a + 1] = c.Slice[b + 1], !.Slice[b + 1] = c.Slice[a + 1]]

\* the inner loop of the insertion sort: data[j] sinks while it is Less than data[j-1]
RECURSIVE SinkLeft(_, _)
SinkLeft(c, j) ==
  IF j > 0 /\ Less(c, j, j - 1) THEN SinkLeft(Swap(c, j, j - 1), j - 1) ELSE c

RECURSIVE InsertionSort(_, _)
InsertionSort(c, i) ==
  IF i >= Len(c.Slice) THEN c ELSE InsertionSort(SinkLeft(c, i), i + 1)

\* sort.Stable(c): below its block size of 20 elements it is one insertion sort
SortStable(c) == InsertionSort(c, 1)

\* ------------------------------------------------ the resolution phase
\* m[k] of a Go map[int]int: the zero value when k is no key
MapGet(m, k) == IF k \in DOMAIN m THEN m[k] ELSE 0
MapPut(m, k, v) == IF k \in DOMAIN m THEN [m EXCEPT ![k] = v] ELSE m @@ (k :> v)

\* if j > deps[j] { deps[j] = j }
Absorb(deps, j) == IF j > MapGet(deps, j) THEN MapPut(deps, j, j) ELSE deps

\* for _, k := range index[dep].Dependencies { if j > deps[k] { deps[k] = j } }
RECURSIVE AbsorbAll(_, _, _, _)
AbsorbAll(deps, j, ks, n) ==
  IF n > Len(ks) THEN deps
  ELSE AbsorbAll(IF j > MapGet(deps, ks[n]) THEN MapPut(deps, ks[n], j) ELSE deps, j, ks, n + 1)

\* the keys of deps appended to Dependencies and sorted by sort.Sort
RECURSIVE SortedKeys(_)
SortedKeys(S) ==
  IF S = {} THEN <<>>
  ELSE LET m == CHOOSE x \in S : \A y \in S : x <= y IN <<m>> \o SortedKeys(S \ {m})

\* the state of the loop over codex.Double for one variable
GroupInit(rs) == [Cursors |-> <<>>, Future |-> EmptyMap, deps |-> EmptyMap, refs |-> rs]

\* a lookup that never finds the variable
HasNever(indexMap, dep) == FALSE

\* if j, has := indexMap[dep]; has
Has(indexMap, dep) == dep \in DOMAIN indexMap

\* the body of the loop over codex.Double: the group rseq keyed by dep
ResolveGroup(ls, index, indexMap, dep, rseq) ==
  IF Has(indexMap, dep) THEN
    LET j == indexMap[dep]
        rs == [r \in DOMAIN ls.refs |->
                 IF \E k \in DOMAIN rseq : rseq[k] = r
                   THEN LET k == CHOOSE k \in DOMAIN rseq : rseq[k] = r
                        IN [ls.refs[r] EXCEPT !.Cursor.ID = dep, !.Cursor.Index = k - 1]
                   ELSE ls.refs[r]]
        handles == [k \in DOMAIN rseq |-> <<rseq[k], ls.refs[rseq[k]].Cursor.gen>>]
    IN [ls EXCEPT !.refs = rs,
                  !.Cursors = @ \o handles,
                  !.deps = AbsorbAll(Absorb(@, j), j, index[dep].Dependencies, 1)]
  ELSE [ls EXCEPT !.Future = MapPut(@, dep, rseq)]

RECURSIVE ResolveGroups(_, _, _, _, _, _)
ResolveGroups(ls, index, indexMap, codex, deps, n) ==
  IF n > Len(deps) THEN ls
  ELSE ResolveGroups(ResolveGroup(ls, index, indexMap, deps[n], codex.Double[deps[n]]),
                     index, indexMap, codex, deps, n + 1)

\* index[id].setValueRoot(txn): ValueRoot is TRUE for a non-nil root; empty says
\* that the static intersect of the Present References is empty
setValueRoot(assignment, empty) == [assignment EXCEPT !.ValueRoot = ~empty]

\* the state of the second loop of getAssignmentTree; err is "" (nil) or "root"
AssignInit(rs) == [err |-> "", index |-> EmptyMap, indexMap |-> EmptyMap, refs |-> rs]

\* the body of the loop over c.Slice for the variable at the 0-based position i
AssignVar(as, c, dord, i, emptyRoot) ==
  LET id == c.Slice[i + 1]
      codex == c.Index[id]
      indexMap == MapPut(as.indexMap, id, i)
      ls == ResolveGroups(GroupInit(as.refs), as.index, indexMap, codex, dord[id], 1)
      assignment == setValueRoot(
        [Constraint |-> codex.Constraint, Present |-> codex.Single,
         Past |-> [Cursors |-> ls.Cursors], Future |-> ls.Future,
         Dependencies |-> SortedKeys(DOMAIN ls.deps), ValueRoot |-> FALSE],
        id = emptyRoot)
  IN [err |-> IF assignment.ValueRoot THEN "" ELSE "root",
      index |-> MapPut(as.index, id, assignment),
      indexMap |-> indexMap,
      refs |-> ls.refs]

RECURSIVE AssignAll(_, _, _, _, _)
AssignAll(as, c, dord, i, emptyRoot) ==
  IF as.err # "" \/ i >= Len(c.Slice) THEN as
  ELSE AssignAll(AssignVar(as, c, dord, i, emptyRoot), c, dord, i + 1, emptyRoot)

\* a return that hands out the order and the Assignment map built so far
\* together with the error
ReturnPartial(err, slice, index) ==
  [err |-> err, sliceNil |-> slice = <<>>, slice |-> slice, indexNil |-> FALSE, index |-> index]

\* what getAssignmentTree returns: the error ("" is nil), the order and the
\* Assignment map, each with the flag that says that it is nil
Return(err, slice, index) ==
  IF err # "" THEN [err |-> err, sliceNil |-> TRUE, slice |-> <<>>, indexNil |-> TRUE, index |-> EmptyMap]
  ELSE [err |-> "", sliceNil |-> slice = <<>>, slice |-> slice, indexNil |-> FALSE, index |-> index]

\* c.getAssignmentTree(txn): the returned values, the CodexMap and the heap after
\* the call.  iord and dord are the orders in which the maps c.Index and
\* Index[id].Double are iterated, errAt is the call of getCount that fails with
\* a read error (0: none), emptyRoot the variable whose ValueRoot is nil ("": none)
getAssignmentTree(c, rs, iord, dord, errAt, emptyRoot) ==
  LET ps == ProbeAll(ProbeInit(c, rs), iord, dord, 1, errAt)
  IN IF ps.err # "" THEN [ret |-> Return(ps.err, <<>>, EmptyMap), c |-> ps.c, refs |-> ps.refs]
     ELSE LET sorted == SortStable(ps.c)
              as == AssignAll(AssignInit(ps.refs), sorted, dord, 0, emptyRoot)
          IN [ret |-> Return(as.err, sorted.Slice, as.index), c |-> sorted, refs |-> as.refs]

\* ----------------------------------------------------------- teardown
\* ref.close(): the Cursor of the Reference, if any, is released
refClose(ref) == IF ref.Cursor.gen = 0 THEN ref ELSE [ref EXCEPT !.Cursor.released = TRUE]

\* the References codex.close() closes: Single and every group of Double
Closed(codex) ==
  {codex.Single[k] : k \in DOMAIN codex.Single}
    \cup UNION {{codex.Double[d][k] : k \in DOMAIN codex.Double[d]} : d \in DOMAIN codex.Double}

\* c.close(): the heap after it
close(c, rs) ==
  LET closing == UNION {Closed(c.Index[c.Slice[n]]) : n \in DOMAIN c.Slice}
  IN [r \in DOMAIN rs |-> IF r \in closing THEN refClose(rs[r]) ELSE rs[r]]

\* ------------------------------------------------------ the state machine
VARIABLES
  dataset,    \* the statements of the pattern: sub-graph -> sequence of quads
  pc,         \* "start", "classified", "classifyFailed", "assigned", "assignFailed", "closed"
  cret,       \* what the last getInitalCodexMap returned
  c,          \* the CodexMap
  refs,       \* the arena of References (with the Cursor of each)
  ret,        \* what the last getAssignmentTree returned
  calls,      \* the number of getAssignmentTree calls on c
  firstSeen,  \* c.Slice as getInitalCodexMap left it
  rerun,      \* the pattern is being compiled for the second time
  history     \* the order and the Dependencies of the first call of every compilation

vars == <<dataset, pc, cret, c, refs, ret, calls, firstSeen, rerun, history>>

NoRet == [err |-> "", sliceNil |-> TRUE, slice |-> <<>>, indexNil |-> TRUE, index |-> EmptyMap]
NoCret == [err |-> FALSE, constantsNil |-> TRUE, constants |-> <<>>, codexMapNil |-> TRUE]

Init ==
  /\ \E n1 \in 0..MaxQuads : \E n2 \in 0..(MaxQuads - n1) :
       \E s1 \in [1..n1 -> Pool] : \E s2 \in [1..n2 -> Pool] :
         dataset = ("g1" :> s1) @@ ("g2" :> s2)
  /\ pc = "start"
  /\ cret = NoCret
  /\ c = EmptyCodexMap
  /\ refs = <<>>
  /\ ret = NoRet
  /\ calls = 0
  /\ firstSeen = <<>>
  /\ rerun = FALSE
  /\ history = <<>>

\* what getInitalCodexMap returns: on an error nil, nil and the error
ClassifyReturn(st) ==
  IF st.err THEN [err |-> TRUE, constantsNil |-> TRUE, constants |-> <<>>, codexMapNil |-> TRUE]
  ELSE [err |-> FALSE, constantsNil |-> FALSE, constants |-> st.constants, codexMapNil |-> FALSE]

\* the effect of getInitalCodexMap(dataset) on the state
Classify ==
  /\ \E gord \in Perms(Graphs) :
       LET st == ClassifyGraphs(ClassifyInit, dataset, gord, 1)
       IN /\ cret' = ClassifyReturn(st)
          /\ c' = IF st.err THEN EmptyCodexMap ELSE st.codexMap
          /\ refs' = IF st.err THEN <<>> ELSE st.refs
          /\ firstSeen' = IF st.err THEN <<>> ELSE st.codexMap.Slice
          /\ pc' = IF st.err THEN "classifyFailed" ELSE "classified"
  /\ calls' = 0
  /\ ret' = NoRet
  /\ UNCHANGED <<dataset, history>>

\* getInitalCodexMap(dataset)
GetInitalCodexMap ==
  /\ pc = "start"
  /\ Classify
  /\ UNCHANGED rerun

\* getInitalCodexMap(dataset) once more: the same pattern is compiled again
Recompile ==
  /\ pc # "start"
  /\ ~rerun
  /\ rerun' = TRUE
  /\ Classify

\* the orders in which the maps Index[id].Double can be iterated
RECURSIVE DoubleOrders(_, _)
DoubleOrders(cm, ids) ==
  IF ids = {} THEN {EmptyMap}
  ELSE LET id == CHOOSE x \in ids : TRUE
       IN { f @@ (id :> p) : f \in DoubleOrders(cm, ids \ {id}),
                             p \in Perms(DOMAIN cm.Index[id].Double) }

\* the number of References getAssignmentTree probes
RECURSIVE SumLen(_, _)
SumLen(f, S) ==
  IF S = {} THEN 0
  ELSE LET x == CHOOSE x \in S : TRUE IN Len(f[x]) + SumLen(f, S \ {x})
Probes(cm) ==
  SumLen([id \in DOMAIN cm.Index |-> cm.Index[id].Single], DOMAIN cm.Index)
    + SumLen([id \in DOMAIN cm.Index |->
                [k \in 1..SumLen(cm.Index[id].Double, DOMAIN cm.Index[id].Double) |-> 0]],
             DOMAIN cm.Index)

\* c.getAssignmentTree(txn)
GetAssignmentTree ==
  /\ pc \in {"classified", "assigned"}
  /\ calls < MaxCalls
  /\ \E iord \in Perms(DOMAIN c.Index) : \E dord \in DoubleOrders(c, DOMAIN c.Index) :
       \E in \in ({0} \X ({""} \cup DOMAIN c.Index)) \cup ((1..Probes(c)) \X {""}) :
         LET errAt == in[1]
             emptyRoot == in[2]
             r == getAssignmentTree(c, refs, iord, dord, errAt, emptyRoot)
         IN /\ ret' = r.ret
            /\ c' = r.c
            /\ refs' = r.refs
            /\ pc' = IF r.ret.err = "" THEN "assigned" ELSE "assignFailed"
            /\ history' = IF calls = 0 /\ r.ret.err = ""
                            THEN Append(history,
                                        [order |-> r.ret.slice,
                                         deps |-> [id \in DOMAIN r.ret.index |->
                                                     r.ret.index[id].Dependencies]])
                            ELSE history
  /\ calls' = calls + 1
  /\ UNCHANGED <<dataset, cret, firstSeen, rerun>>

\* c.close()
Close ==
  /\ pc \in {"classified", "assigned", "assignFailed"}
  /\ refs' = close(c, refs)
  /\ pc' = "closed"
  /\ UNCHANGED <<dataset, cret, c, ret, calls, firstSeen, rerun, history>>

Next == GetInitalCodexMap \/ GetAssignmentTree \/ Close

\* one compilation of a pattern
Spec == Init /\ [][Next]_vars

NextTwice == GetInitalCodexMap \/ GetAssignmentTree \/ Close \/ Recompile

\* a pattern compiled once and then once more
SpecTwice == Init /\ [][NextTwice]_vars

\* --------------------------------------------------------- the claims
Range(seq) == {seq[k] : k \in DOMAIN seq}

\* the 0-based position of id in the sequence seq
PosIn(seq, id) == (CHOOSE n \in DOMAIN seq : seq[n] = id) - 1

\* the 0-based position of the variable id in the returned order
Pos(id) == PosIn(ret.slice, id)

\* every Reference of the Single list and of the Double groups of a Codex
Probed(codex) == Closed(codex)

RECURSIVE Sum(_, _)
Sum(f, S) == IF S = {} THEN 0 ELSE LET x == CHOOSE x \in S : TRUE IN f[x] + Sum(f, S \ {x})

\* the number of places of seq that hold a Reference of RS
Occ(seq, RS) == Cardinality({k \in DOMAIN seq : seq[k] \in RS})

\* C1: after a successful getAssignmentTree, for every variable id and every
\* Double group of id keyed by a variable dep placed before id, the
\* Dependencies of id contain the position of dep (position 0 included) and
\* every position of the Dependencies of dep.
C1_DependenciesAbsorb ==
  pc = "assigned" =>
    \A id \in DOMAIN c.Index : \A dep \in DOMAIN c.Index[id].Double :
      Pos(dep) < Pos(id) =>
        /\ Pos(dep) \in Range(ret.index[id].Dependencies)
        /\ Range(ret.index[dep].Dependencies) \subseteq Range(ret.index[id].Dependencies)

\* C2: when getAssignmentTree fails on a probed count of zero, every Cursor
\* that the probe attached to another Reference of the CodexMap has been
\* released when the failure is returned.
C2_FailedProbeReleasesCursors ==
  (pc = "assignFailed" /\ ret.err = "zero") =>
    \A id \in DOMAIN c.Index : \A r \in Probed(c.Index[id]) :
      (refs[r].Cursor.gen # 0 /\ refs[r].Cursor.Count > 0) => refs[r].Cursor.released

\* C3: the returned order is a permutation of the first-seen list, the Count
\* of its variables does not increase from front to back, and two variables
\* of equal Count keep their first-seen order.
C3_OrderStableByCount ==
  pc = "assigned" =>
    /\ Len(ret.slice) = Len(firstSeen)
    /\ Range(ret.slice) = Range(firstSeen)
    /\ \A a, b \in DOMAIN ret.slice :
         a < b =>
           /\ c.Index[ret.slice[a]].Count >= c.Index[ret.slice[b]].Count
           /\ c.Index[ret.slice[a]].Count = c.Index[ret.slice[b]].Count
                => PosIn(firstSeen, ret.slice[a]) < PosIn(firstSeen, ret.slice[b])

\* the sort moved a variable while two other places of the order tie
C3_Witness ==
  /\ pc = "assigned"
  /\ ret.slice # firstSeen
  /\ \E a, b \in DOMAIN ret.slice :
       a < b /\ c.Index[ret.slice[a]].Count = c.Index[ret.slice[b]].Count

\* C4: once getInitalCodexMap has returned a CodexMap, every Reference r of
\* Index[a].Double[b] has exactly one partner r2 in Index[b].Double[a] with
\* r.Dual = r2 and r2.Dual = r, of the same graph and statement index; the two
\* groups have the same length and no Dual is nil.
C4_DoublePaired ==
  ~cret.codexMapNil =>
    \A a \in DOMAIN c.Index : \A b \in DOMAIN c.Index[a].Double :
      /\ b \in DOMAIN c.Index
      /\ a \in DOMAIN c.Index[b].Double
      /\ Len(c.Index[a].Double[b]) = Len(c.Index[b].Double[a])
      /\ \A k \in DOMAIN c.Index[a].Double[b] :
           LET r == c.Index[a].Double[b][k]
               partners == {k2 \in DOMAIN c.Index[b].Double[a] :
                              /\ refs[r].Dual = c.Index[b].Double[a][k2]
                              /\ refs[c.Index[b].Double[a][k2]].Dual = r}
           IN /\ refs[r].Dual # 0
              /\ Cardinality(partners) = 1
              /\ \A k2 \in partners :
                   /\ refs[c.Index[b].Double[a][k2]].Graph = refs[r].Graph
                   /\ refs[c.Index[b].Double[a][k2]].Index = refs[r].Index

\* two statements pair the same two variables
C4_Witness ==
  /\ pc = "classified"
  /\ \E a \in DOMAIN c.Index : \E b \in DOMAIN c.Index[a].Double :
       Len(c.Index[a].Double[b]) >= 2

\* the group Double[dep] of id is in the Past of id: each of its References
\* has its Cursor in Past.Cursors
InPast(id, dep) ==
  \A k \in DOMAIN c.Index[id].Double[dep] :
    \E h \in Range(ret.index[id].Past.Cursors) : h[1] = c.Index[id].Double[dep][k]

\* no Reference of the group Double[dep] of id has a Cursor in the Past of id
NotInPast(id, dep) ==
  \A k \in DOMAIN c.Index[id].Double[dep] :
    \A h \in Range(ret.index[id].Past.Cursors) : h[1] # c.Index[id].Double[dep][k]

InFuture(id, dep) ==
  /\ dep \in DOMAIN ret.index[id].Future
  /\ ret.index[id].Future[dep] = c.Index[id].Double[dep]

\* C5: after a successful getAssignmentTree every Cursor of a variable's Past
\* is the Cursor of one of its Double References whose other variable is
\* placed earlier, and every group shared by two variables is in the Past of
\* the later one and in the Future of the earlier one, and in no other Past
\* or Future.
C5_PastFutureResolvedOnce ==
  pc = "assigned" =>
    \A id \in DOMAIN ret.index :
      /\ \A n \in DOMAIN ret.index[id].Past.Cursors :
           LET h == ret.index[id].Past.Cursors[n]
           IN /\ refs[h[1]].Cursor.gen = h[2]
              /\ \E dep \in DOMAIN c.Index[id].Double :
                   /\ h[1] \in Range(c.Index[id].Double[dep])
                   /\ Pos(dep) < Pos(id)
              /\ \A n2 \in DOMAIN ret.index[id].Past.Cursors :
                   n2 # n => ret.index[id].Past.Cursors[n2] # h
      /\ \A dep \in DOMAIN c.Index[id].Double :
           Pos(dep) < Pos(id) =>
             /\ InPast(id, dep)
             /\ dep \notin DOMAIN ret.index[id].Future
             /\ InFuture(dep, id)
             /\ NotInPast(dep, id)

\* a variable in the middle of the order has one group in its Past and one in
\* its Future
C5_Witness ==
  /\ pc = "assigned"
  /\ \E id \in DOMAIN ret.index :
       /\ ret.index[id].Past.Cursors # <<>>
       /\ DOMAIN ret.index[id].Future # {}

\* C6: two compilations of the same statements against the same store return
\* the same order and the same Dependencies of every variable.
C6_Deterministic ==
  \A a, b \in DOMAIN history : history[a] = history[b]

\* the statement has a variable at each of its three places
AllBlank(quad) == quad.Subject.blank /\ quad.Predicate.blank /\ quad.Object.blank

\* C7: a failing getInitalCodexMap returns nil constants and a nil CodexMap, a
\* failing getAssignmentTree a nil order and a nil Assignment map; a statement
\* of three variables makes getInitalCodexMap fail; an Assignment map is
\* returned only with an Assignment of non-nil ValueRoot for every variable.
C7_AllOrNothing ==
  /\ cret.err => (cret.constantsNil /\ cret.codexMapNil)
  /\ pc # "start" =>
       (cret.err <=> \E g \in Graphs : \E n \in DOMAIN dataset[g] : AllBlank(dataset[g][n]))
  /\ ret.err # "" => (ret.sliceNil /\ ret.indexNil)
  /\ pc = "assignFailed" => ret.err # ""
  /\ ~ret.indexNil =>
       /\ ret.err = ""
       /\ \A n \in DOMAIN c.Slice :
            /\ c.Slice[n] \in DOMAIN ret.index
            /\ ret.index[c.Slice[n]].ValueRoot

\* the first call fails on an empty ValueRoot after a variable placed later
\* than the first has resolved a group of its Past
C7_Witness ==
  /\ pc = "assignFailed"
  /\ ret.err = "root"
  /\ calls = 1
  /\ \E r \in DOMAIN refs : refs[r].Cursor.ID # ""

\* the variables of a statement
VarsOf(quad) ==
  {n.v : n \in {m \in {quad.Subject, quad.Predicate, quad.Object} : m.blank}}

\* the number of variable places of a statement
Blanks(quad) ==
  Cardinality({p \in {"Subject", "Predicate", "Object"} : quad[p].blank})

\* the places of the lists of the CodexMap and of the constants that hold a
\* Reference of RS
ConstraintOcc(id, RS) == Occ(c.Index[id].Constraint, RS)
SingleOcc(id, RS) == Occ(c.Index[id].Single, RS)
DoubleOcc(id, dep, RS) ==
  IF dep \in DOMAIN c.Index[id].Double THEN Occ(c.Index[id].Double[dep], RS) ELSE 0
DoubleTotal(id, RS) ==
  Sum([dep \in DOMAIN c.Index[id].Double |-> Occ(c.Index[id].Double[dep], RS)],
      DOMAIN c.Index[id].Double)
CodexTotal(RS) ==
  Sum([id \in DOMAIN c.Index |->
         ConstraintOcc(id, RS) + SingleOcc(id, RS) + DoubleTotal(id, RS)],
      DOMAIN c.Index)

\* C8: getInitalCodexMap adds, for a statement without variable, one Reference
\* to the constants and none to any Codex, and creates no Codex; for one
\* variable, one Single Reference of that variable; for one variable at two
\* places, one Constraint Reference of that variable; for two distinct
\* variables, one Double Reference in the Codex of each, under the other; and
\* nothing else.
C8_ReferencesMatchPattern ==
  ~cret.codexMapNil =>
    /\ DOMAIN c.Index = UNION {UNION {VarsOf(dataset[g][n]) : n \in DOMAIN dataset[g]} : g \in Graphs}
    /\ \A g \in Graphs : \A n \in DOMAIN dataset[g] :
         LET quad == dataset[g][n]
             RS == {r \in DOMAIN refs : refs[r].Graph = g /\ refs[r].Index = n - 1}
             vs == VarsOf(quad)
         IN IF Blanks(quad) = 0 THEN
              /\ Occ(cret.constants, RS) = 1
              /\ CodexTotal(RS) = 0
              /\ Cardinality(RS) = 1
            ELSE IF Blanks(quad) = 1 THEN
              /\ Occ(cret.constants, RS) = 0
              /\ \A v \in vs : SingleOcc(v, RS) = 1
              /\ CodexTotal(RS) = 1
              /\ Cardinality(RS) = 1
            ELSE IF Cardinality(vs) = 1 THEN
              /\ Occ(cret.constants, RS) = 0
              /\ \A v \in vs : ConstraintOcc(v, RS) = 1 /\ SingleOcc(v, RS) = 0
                                 /\ DoubleTotal(v, RS) = 0
              /\ CodexTotal(RS) = 1
              /\ Cardinality(RS) = 1
            ELSE
              /\ Occ(cret.constants, RS) = 0
              /\ \A v \in vs : \A w \in vs \ {v} : DoubleOcc(v, w, RS) = 1
              /\ CodexTotal(RS) = 2
              /\ Cardinality(RS) = 2

\* a classified dataset holds a statement without variable and a statement of
\* two distinct variables
C8_Witness ==
  /\ pc = "classified"
  /\ \E g \in Graphs : \E n \in DOMAIN dataset[g] : Blanks(dataset[g][n]) = 0
  /\ \E g \in Graphs : \E n \in DOMAIN dataset[g] :
       Blanks(dataset[g][n]) = 2 /\ Cardinality(VarsOf(dataset[g][n])) = 2

\* C9: after every successful getAssignmentTree, Count is the sum of the
\* probed counts of the Single and Double References of the Codex, Norm the
\* sum of their squares and Length their number.
C9_StatisticsMatchProbes ==
  pc = "assigned" =>
    \A id \in DOMAIN c.Index :
      LET P == Probed(c.Index[id])
      IN /\ c.Index[id].Count = Sum([r \in P |-> refs[r].Cursor.Count], P)
         /\ c.Index[id].Norm = Sum([r \in P |-> refs[r].Cursor.Count * refs[r].Cursor.Count], P)
         /\ c.Index[id].Length = Cardinality(P)

\* C10: a Reference has no Cursor when getInitalCodexMap returns, and a
\* Cursor attached to a Reference is never replaced by another Cursor.
C10_CursorAttachedOnce ==
  [][ /\ (pc = "start" /\ pc' = "classified") =>
           \A r \in DOMAIN refs' : refs'[r].Cursor.gen = 0
      /\ pc # "start" =>
           \A r \in DOMAIN refs :
             refs[r].Cursor.gen # 0 => refs'[r].Cursor.gen = refs[r].Cursor.gen ]_vars

====
